---- MODULE Spec2Model ----
(***************************************************************************)
(* A state-machine model of livox-rs: the Sdk session (src/src/sdk.rs),    *)
(* the callback bridge (src/src/callbacks.rs), Device and DataStream       *)
(* (src/src/device.rs), the state masks (src/src/enums.rs) and the packet  *)
(* decoder (src/src/datapacket.rs).                                        *)
(*                                                                         *)
(* The specifications of the module, one per group of shared tables:       *)
(*   SpecSession, SpecSdk  BROADCAST_PIPE, the drain thread, connect       *)
(*   SpecStream DATA_PIPES, DataStream, data_cb                            *)
(*   SpecState  DEVICE_STATES, device_state_update_cb, wait_for_state      *)
(*   SpecDecode data_cb with the packet decoder on raw packets             *)
(*   SpecFrame  all operations side by side, one input of each kind        *)
(*   SpecDiscovery  the session life cycle under fair scheduling           *)
(*   SpecStateFair  SpecState under fair scheduling of the waiter          *)
(*   SpecLocks  all operations at the grain of their mutex operations      *)
(* A panic (unwrap/expect/panic!/assert!) on a caller or native-callback   *)
(* thread is recorded in `fault` and ends the run; a panic of the drain    *)
(* thread only ends that thread.                                           *)
(***************************************************************************)
EXTENDS Integers, Sequences, FiniteSets, TLC

VARIABLES
    BROADCAST_PIPE,   \* callbacks.rs:10  None, or the session whose Sender is stored
    pc,               \* per caller thread: its position inside Sdk::new
    sdk,              \* per session: lifecycle of the Sdk value
    broadcast_chan,   \* per session: messages queued in the (sender, broadcast_receiver) channel
    known_devices,    \* per session: HashMap<String, bool>
    drain,            \* per session: position of the spawned drain thread
    kill,             \* per session: messages queued in the (kill_sender, kill_recv) channel
    connected,        \* history: per session, the codes for which connect() has returned
    DEVICE_STATES,    \* callbacks.rs:27  HashMap<u8, LidarState>
    devices,          \* handles for which a Device value has been constructed
    notified,         \* history: per handle, the state of the last notification processed
    table_op,         \* history: the latest operation that locked the table to write it
    DATA_PIPES,       \* callbacks.rs:45  HashMap<u8, Sender<DataPacket>> (the stream owning the receiver)
    stream,           \* per DataStream: lifecycle
    shandle,          \* per DataStream: its handle field
    data_chan,        \* per DataStream: packets queued in its channel
    invoked,          \* history: per DataStream, packets of the data_cb calls made while it was registered
    polled,           \* history: per DataStream, packets returned by next()
    dropped_since,    \* history: per handle, whether a stream was dropped and none started since,
                      \* and the number of data_cb calls made for the handle since that drop
    ncalls,           \* number of data_cb invocations so far
    last_cb,          \* history: the arguments of the latest data_cb invocation
    wpc,              \* per waiter: position inside wait_for_state
    whandle,          \* per waiter: self.handle
    wmask,            \* per waiter: state_mask
    wpolls,           \* per waiter: loop iterations executed by the current call
    state_lock,       \* the waiter holding the DEVICE_STATES mutex, or Unlocked
    held,             \* lock-level view: per mutex, the thread holding it, or Unlocked
    lpc,              \* lock-level view: per thread, its operation and the next step of it
    lkill,            \* lock-level view: the kill signal was sent
    ldrain,           \* lock-level view: "none", "running", "ended" drain thread
    lastOp,           \* the last caller-visible operation and its result
    fault             \* "none", or the panic that ended the run

sdkVars == <<BROADCAST_PIPE, pc, sdk, broadcast_chan, known_devices, drain, kill, connected>>
devVars == <<DEVICE_STATES, devices, notified, table_op>>
streamVars == <<DATA_PIPES, stream, shandle, data_chan, invoked, polled, dropped_since, ncalls,
                last_cb>>
lockVars == <<held, lpc, lkill, ldrain>>
waitVars == <<wpc, whandle, wmask, wpolls, state_lock, lockVars>>
vars == <<sdkVars, devVars, streamVars, waitVars, lastOp, fault>>

(***************************************************************************)
(* Bounds of the model.                                                    *)
(***************************************************************************)
NumThreads == 2
MaxSessions == 2
MaxQueue == 2
MaxHandle == 1
MaxStreams == 2
MaxCalls == 3
NumWaiters == 1
MaxPolls == 2

Threads == 1..NumThreads
Sessions == 1..MaxSessions
Handles == 0..MaxHandle
Streams == 1..MaxStreams
Waiters == 1..NumWaiters

\* The four mutexes: the lazy_static tables of callbacks.rs and the known_devices
\* of a session (sdk.rs:58).
Locks == {"BROADCAST_PIPE", "DATA_PIPES", "DEVICE_STATES", "known_devices"}

\* Lock-level view: the caller threads, one thread of the native library that
\* invokes the callbacks, and the drain thread.
NativeThread == NumThreads + 1
DrainThreadId == NumThreads + 2
LockThreads == Threads \cup {NativeThread, DrainThreadId}

Idle == [op |-> "idle", at |-> 0]

(***************************************************************************)
(* Option::None of BROADCAST_PIPE; Some(sender) is the session number.     *)
(***************************************************************************)
None == 0

\* The DEVICE_STATES mutex (callbacks.rs:27) when nobody holds it. Every holder
\* but wait_for_state is modelled by one step that takes and releases it.
Unlocked == 0

(***************************************************************************)
(* HashMap insert / remove (std): insert overwrites an existing key.       *)
(***************************************************************************)
MapInsert(m, k, v) == [x \in (DOMAIN m) \cup {k} |-> IF x = k THEN v ELSE m[x]]

MapRemove(m, k) == [x \in (DOMAIN m) \ {k} |-> m[x]]

EmptyMap == [x \in {} |-> 0]

(***************************************************************************)
(* enums.rs: LidarState discriminants and LidarStateMask values.           *)
(***************************************************************************)
LidarStateInit == 0
LidarStateNormal == 1
LidarStatePowerSaving == 2
LidarStateStandBy == 3
LidarStateError == 4
LidarStateUnknown == 5

LidarStates == {LidarStateInit, LidarStateNormal, LidarStatePowerSaving,
                LidarStateStandBy, LidarStateError, LidarStateUnknown}

MaskInit == 1
MaskNormal == 2
MaskPowerSaving == 4
MaskStandBy == 8
MaskError == 16
MaskUnknown == 32
MaskAny == 31

LidarStateMasks == {MaskInit, MaskNormal, MaskPowerSaving, MaskStandBy,
                    MaskError, MaskUnknown, MaskAny}

(***************************************************************************)
(* Broadcast codes. The native BroadcastDeviceInfo carries 16 c_char       *)
(* (signed bytes). CodeNulTerminated is the usual 15 characters and a NUL, *)
(* CodeFull has no NUL, CodeNotUtf8 carries the byte -1 (0xFF).            *)
(***************************************************************************)
BROADCAST_CODE_LEN == 16

CodeNulTerminated == [i \in 1..BROADCAST_CODE_LEN |-> IF i = BROADCAST_CODE_LEN THEN 0 ELSE 65]
CodeFull == [i \in 1..BROADCAST_CODE_LEN |-> 66]
CodeNotUtf8 == [i \in 1..BROADCAST_CODE_LEN |-> IF i = BROADCAST_CODE_LEN THEN -1 ELSE 65]

BroadcastCodes == {CodeNulTerminated, CodeFull, CodeNotUtf8}

\* sdk.rs:66-69  v2.push(*c as u8): the two's-complement cast of each c_char
AsU8(c) == (c + 256) % 256

CodeBytes(code) == [i \in 1..Len(code) |-> AsU8(code[i])]

\* String::from_utf8 (std): Ok exactly for well-formed UTF-8. The bytes are
\* scanned from position i on.
RECURSIVE Utf8OkFrom(_, _)
Utf8OkFrom(b, i) ==
    IF i > Len(b) THEN TRUE
    ELSE LET b1 == b[i]
             In(k, lo, hi) == Len(b) >= i + k /\ b[i + k] >= lo /\ b[i + k] <= hi
             Cont(k) == In(k, 128, 191)
         IN  IF b1 < 128 THEN Utf8OkFrom(b, i + 1)
             ELSE IF b1 >= 194 /\ b1 <= 223 THEN Cont(1) /\ Utf8OkFrom(b, i + 2)
             ELSE IF b1 = 224 THEN In(1, 160, 191) /\ Cont(2) /\ Utf8OkFrom(b, i + 3)
             ELSE IF b1 = 237 THEN In(1, 128, 159) /\ Cont(2) /\ Utf8OkFrom(b, i + 3)
             ELSE IF b1 >= 225 /\ b1 <= 239 THEN Cont(1) /\ Cont(2) /\ Utf8OkFrom(b, i + 3)
             ELSE IF b1 = 240 THEN In(1, 144, 191) /\ Cont(2) /\ Cont(3) /\ Utf8OkFrom(b, i + 4)
             ELSE IF b1 = 244 THEN In(1, 128, 143) /\ Cont(2) /\ Cont(3) /\ Utf8OkFrom(b, i + 4)
             ELSE IF b1 >= 241 /\ b1 <= 243 THEN Cont(1) /\ Cont(2) /\ Cont(3) /\ Utf8OkFrom(b, i + 4)
             ELSE FALSE

Utf8Ok(b) == Utf8OkFrom(b, 1)

\* CString::new (std): Err(NulError) when the bytes contain a 0 byte
HasNul(s) == \E i \in 1..Len(s) : s[i] = 0

\* Strings a caller passes to connect(): the discoverable codes as list_known_devices
\* returns them, and the 15-character code without its NUL, which is never listed.
StrTrimmed == [i \in 1..(BROADCAST_CODE_LEN - 1) |-> 65]

ConnectArgs == {CodeBytes(CodeNulTerminated), CodeBytes(CodeFull), StrTrimmed}

(***************************************************************************)
(* Initial state: the lazy_static tables as constructed, no Sdk, no        *)
(* Device, no DataStream, nobody waiting.                                  *)
(***************************************************************************)
NoOp == [name |-> "none", who |-> 0, arg |-> <<>>, res |-> "none", out |-> {}]

Init ==
    /\ BROADCAST_PIPE = None
    /\ pc = [t \in Threads |-> [at |-> "idle", s |-> 0]]
    /\ sdk = [s \in Sessions |-> "unused"]
    /\ broadcast_chan = [s \in Sessions |-> <<>>]
    /\ known_devices = [s \in Sessions |-> EmptyMap]
    /\ drain = [s \in Sessions |-> "none"]
    /\ kill = [s \in Sessions |-> <<>>]
    /\ connected = [s \in Sessions |-> {}]
    /\ DEVICE_STATES = EmptyMap
    /\ devices = {}
    /\ notified = EmptyMap
    /\ table_op = [kind |-> "none", handle |-> 0, state |-> LidarStateUnknown]
    /\ DATA_PIPES = EmptyMap
    /\ stream = [d \in Streams |-> "unused"]
    /\ shandle = [d \in Streams |-> 0]
    /\ data_chan = [d \in Streams |-> <<>>]
    /\ invoked = [d \in Streams |-> <<>>]
    /\ polled = [d \in Streams |-> <<>>]
    /\ dropped_since = [h \in Handles |-> [dropped |-> FALSE, calls |-> 0]]
    /\ ncalls = 0
    /\ last_cb = [handle |-> 0, data |-> <<>>, data_size |-> 0, beyond |-> 0]
    /\ wpc = [w \in Waiters |-> "idle"]
    /\ whandle = [w \in Waiters |-> 0]
    /\ wmask = [w \in Waiters |-> MaskAny]
    /\ wpolls = [w \in Waiters |-> 0]
    /\ state_lock = Unlocked
    /\ held = [l \in Locks |-> Unlocked]
    /\ lpc = [t \in LockThreads |-> Idle]
    /\ lkill = FALSE
    /\ ldrain = "none"
    /\ lastOp = NoOp
    /\ fault = "none"

Running == fault = "none"

Panic(what) == fault' = what

(***************************************************************************)
(* Sdk::new, sdk.rs:36-98. Each lock().unwrap() statement, the native      *)
(* Init() and the thread spawn are separate steps of the calling thread.   *)
(***************************************************************************)
\* Sessions constructed so far, and the number the next channel gets.
Allocated == Cardinality({s \in Sessions : sdk[s] # "unused"})

InFlight == Cardinality({t \in Threads : pc[t].at \in {"init", "install"}})

\* sdk.rs:37-43  match *BROADCAST_PIPE.lock().unwrap() { Some(_) => return Err(()), None => {} }
SlotOccupied(slot) == slot # None

NewCheck(t) ==
    /\ Running
    /\ pc[t].at = "idle"
    /\ IF SlotOccupied(BROADCAST_PIPE)
       THEN /\ lastOp' = [name |-> "new", who |-> t, arg |-> <<>>, res |-> "Err", out |-> {}]
            /\ UNCHANGED pc
       ELSE /\ Allocated + InFlight < MaxSessions
            /\ pc' = [pc EXCEPT ![t].at = "init"]
            /\ UNCHANGED lastOp
    /\ UNCHANGED <<BROADCAST_PIPE, sdk, broadcast_chan, known_devices, drain, kill, connected>>
    /\ UNCHANGED <<devVars, streamVars, waitVars, fault>>

\* Mutant of NewInit: the failure path also empties the discovery slot.
NewInitClearsSlot(t) ==
    /\ Running
    /\ pc[t].at = "init"
    /\ \E result \in BOOLEAN :
          IF result
          THEN /\ pc' = [pc EXCEPT ![t].at = "install"]
               /\ UNCHANGED <<lastOp, BROADCAST_PIPE>>
          ELSE /\ pc' = [pc EXCEPT ![t].at = "idle"]
               /\ BROADCAST_PIPE' = None
               /\ lastOp' = [name |-> "new", who |-> t, arg |-> <<>>, res |-> "Err", out |-> {}]
    /\ UNCHANGED <<sdk, broadcast_chan, known_devices, drain, kill, connected>>
    /\ UNCHANGED <<devVars, streamVars, waitVars, fault>>

\* sdk.rs:45-48  let result = Init(); if !result { return Err(()); }
\* The native Init() may report success or failure.
NewInit(t) ==
    /\ Running
    /\ pc[t].at = "init"
    /\ \E result \in BOOLEAN :
          IF result
          THEN /\ pc' = [pc EXCEPT ![t].at = "install"]
               /\ UNCHANGED lastOp
          ELSE /\ pc' = [pc EXCEPT ![t].at = "idle"]
               /\ lastOp' = [name |-> "new", who |-> t, arg |-> <<>>, res |-> "Err", out |-> {}]
    /\ UNCHANGED <<BROADCAST_PIPE, sdk, broadcast_chan, known_devices, drain, kill, connected>>
    /\ UNCHANGED <<devVars, streamVars, waitVars, fault>>

\* sdk.rs:50-51  let (sender, broadcast_receiver) = channel();
\*               *BROADCAST_PIPE.lock().unwrap() = Some(sender);
\* The slot is overwritten whatever it holds; a Sender it held is dropped.
NewInstall(t) ==
    /\ Running
    /\ pc[t].at = "install"
    /\ LET s == Allocated + 1
       IN  /\ BROADCAST_PIPE' = s
           /\ sdk' = [sdk EXCEPT ![s] = "building"]
           /\ pc' = [pc EXCEPT ![t] = [at |-> "spawn", s |-> s]]
    /\ UNCHANGED <<broadcast_chan, known_devices, drain, kill, connected>>
    /\ UNCHANGED <<devVars, streamVars, waitVars, lastOp, fault>>

\* sdk.rs:53-97  install the native callbacks, create known_devices and the kill
\* channel, thread::spawn the drain loop, Start(), return Ok(Sdk{..}).
NewSpawn(t) ==
    /\ Running
    /\ pc[t].at = "spawn"
    /\ LET s == pc[t].s
       IN  /\ drain' = [drain EXCEPT ![s] = "recv"]
           /\ sdk' = [sdk EXCEPT ![s] = "live"]
           /\ lastOp' = [name |-> "new", who |-> t, arg |-> <<>>, res |-> "Ok", out |-> {s}]
    /\ pc' = [pc EXCEPT ![t] = [at |-> "idle", s |-> 0]]
    /\ UNCHANGED <<BROADCAST_PIPE, broadcast_chan, known_devices, kill, connected>>
    /\ UNCHANGED <<devVars, streamVars, waitVars, fault>>

(***************************************************************************)
(* The drain thread, sdk.rs:62-87: one loop iteration is a try_recv on the *)
(* broadcast channel followed by a try_recv on the kill channel.           *)
(***************************************************************************)
\* The receivers live in the thread's closure: they are dropped when it ends.
ReceiverAlive(s) == drain[s] \notin {"exited", "panicked"}

\* sdk.rs:64-77
DrainRecv(s) ==
    /\ Running
    /\ drain[s] = "recv"
    /\ IF broadcast_chan[s] # <<>>
       THEN LET code == CodeBytes(Head(broadcast_chan[s]))
            IN  IF Utf8Ok(code)
                   THEN /\ known_devices' = [known_devices EXCEPT ![s] = MapInsert(@, code, FALSE)]
                        /\ drain' = [drain EXCEPT ![s] = "kill"]
                        /\ broadcast_chan' = [broadcast_chan EXCEPT ![s] = Tail(@)]
                        /\ UNCHANGED kill
                   ELSE \* String::from_utf8(v2).unwrap() panics: the thread ends and
                        \* its receivers are dropped with what they still hold
                        /\ drain' = [drain EXCEPT ![s] = "panicked"]
                        /\ broadcast_chan' = [broadcast_chan EXCEPT ![s] = <<>>]
                        /\ kill' = [kill EXCEPT ![s] = <<>>]
                        /\ UNCHANGED known_devices
       ELSE /\ drain' = [drain EXCEPT ![s] = "kill"]
            /\ UNCHANGED <<broadcast_chan, known_devices, kill>>
    /\ UNCHANGED <<BROADCAST_PIPE, pc, sdk, connected>>
    /\ UNCHANGED <<devVars, streamVars, waitVars, lastOp, fault>>

\* sdk.rs:78-85
DrainKill(s) ==
    /\ Running
    /\ drain[s] = "kill"
    /\ IF kill[s] # <<>>
       THEN \* break: the closure returns and drops both receivers
            /\ kill' = [kill EXCEPT ![s] = <<>>]
            /\ broadcast_chan' = [broadcast_chan EXCEPT ![s] = <<>>]
            /\ drain' = [drain EXCEPT ![s] = "exited"]
       ELSE /\ drain' = [drain EXCEPT ![s] = "recv"]
            /\ UNCHANGED <<kill, broadcast_chan>>
    /\ UNCHANGED <<BROADCAST_PIPE, pc, sdk, known_devices, connected>>
    /\ UNCHANGED <<devVars, streamVars, waitVars, lastOp, fault>>

(***************************************************************************)
(* broadcast_cb, callbacks.rs:13-24, invoked by a native thread with any   *)
(* broadcast code. The whole body runs under the BROADCAST_PIPE lock.      *)
(***************************************************************************)
BroadcastCb(code) ==
    /\ Running
    /\ IF BROADCAST_PIPE = None
       THEN /\ Panic("broadcast_cb: Broadcast pipe not setup but broadcast_cb called")
            /\ UNCHANGED broadcast_chan
       ELSE IF ReceiverAlive(BROADCAST_PIPE)
       THEN /\ Len(broadcast_chan[BROADCAST_PIPE]) < MaxQueue
            /\ broadcast_chan' = [broadcast_chan EXCEPT ![BROADCAST_PIPE] = Append(@, code)]
            /\ UNCHANGED fault
       ELSE \* sender.send(devinfo).unwrap() on a channel whose receiver is gone
            /\ Panic("broadcast_cb: send on a disconnected channel")
            /\ UNCHANGED broadcast_chan
    /\ UNCHANGED <<BROADCAST_PIPE, pc, sdk, known_devices, drain, kill, connected>>
    /\ UNCHANGED <<devVars, streamVars, waitVars, lastOp>>

(***************************************************************************)
(* Sdk::list_known_devices and Sdk::connect, sdk.rs:100-131. Both need a   *)
(* constructed Sdk value that is not being dropped.                        *)
(***************************************************************************)
\* sdk.rs:124-131  the keys of known_devices, by value
ListedCodes(known) == DOMAIN known

ListKnownDevices(s) ==
    /\ Running
    /\ sdk[s] = "live"
    /\ lastOp' = [name |-> "list", who |-> s, arg |-> <<>>, res |-> "Ok",
                  out |-> ListedCodes(known_devices[s])]
    /\ UNCHANGED <<sdkVars, devVars, streamVars, waitVars, fault>>

\* device.rs:67-75  Device::new(handle): insert (handle, Unknown), return Ok(Device)
DeviceNewTable(states, handle) == MapInsert(states, handle, LidarStateUnknown)

\* sdk.rs:101-112  CString::new(code).expect(..); AddLidarToConnect(code, &mut handle)
\* (its result is only printed); Device::new(handle). The native call may leave the
\* initial handle 0 or write any handle.
Connect(s, code) ==
    /\ Running
    /\ sdk[s] = "live"
    /\ IF HasNul(code)
       THEN /\ Panic("connect: CString::new failed")
            /\ UNCHANGED <<DEVICE_STATES, table_op, devices, connected, lastOp>>
       ELSE \E handle \in Handles :
            /\ state_lock = Unlocked
            /\ DEVICE_STATES' = DeviceNewTable(DEVICE_STATES, handle)
            /\ table_op' = [kind |-> "new", handle |-> handle, state |-> LidarStateUnknown]
            /\ devices' = devices \cup {handle}
            /\ connected' = [connected EXCEPT ![s] = @ \cup {code}]
            /\ lastOp' = [name |-> "connect", who |-> s, arg |-> code, res |-> "Ok",
                          out |-> {handle}]
            /\ UNCHANGED fault
    /\ UNCHANGED <<BROADCAST_PIPE, pc, sdk, broadcast_chan, known_devices, drain, kill>>
    /\ UNCHANGED <<notified, streamVars, waitVars>>

(***************************************************************************)
(* Drop for Sdk, sdk.rs:134-149: Uninit(), kill.send(true).unwrap(),       *)
(* handle.join().unwrap(), *BROADCAST_PIPE.lock().unwrap() = None.         *)
(***************************************************************************)
\* sdk.rs:137-143
DropSignal(s) ==
    /\ Running
    /\ sdk[s] = "live"
    /\ IF ReceiverAlive(s)
       THEN /\ kill' = [kill EXCEPT ![s] = Append(@, TRUE)]
            /\ sdk' = [sdk EXCEPT ![s] = "joining"]
            /\ UNCHANGED fault
       ELSE /\ Panic("Sdk::drop: kill.send on a disconnected channel")
            /\ UNCHANGED <<kill, sdk>>
    /\ UNCHANGED <<BROADCAST_PIPE, pc, broadcast_chan, known_devices, drain, connected>>
    /\ UNCHANGED <<devVars, streamVars, waitVars, lastOp>>

\* sdk.rs:144  join blocks until the thread has ended; Err when it panicked
DropJoin(s) ==
    /\ Running
    /\ sdk[s] = "joining"
    /\ drain[s] \in {"exited", "panicked"}
    /\ IF drain[s] = "exited"
       THEN /\ sdk' = [sdk EXCEPT ![s] = "clearing"]
            /\ UNCHANGED fault
       ELSE /\ Panic("Sdk::drop: join of a panicked thread")
            /\ UNCHANGED sdk
    /\ UNCHANGED <<BROADCAST_PIPE, pc, broadcast_chan, known_devices, drain, kill, connected>>
    /\ UNCHANGED <<devVars, streamVars, waitVars, lastOp>>

\* sdk.rs:147
DropClear(s) ==
    /\ Running
    /\ sdk[s] = "clearing"
    /\ BROADCAST_PIPE' = None
    /\ sdk' = [sdk EXCEPT ![s] = "dropped"]
    \* the Sdk value is gone: its known_devices map is freed, its history ends
    /\ known_devices' = [known_devices EXCEPT ![s] = EmptyMap]
    /\ connected' = [connected EXCEPT ![s] = {}]
    /\ UNCHANGED <<pc, broadcast_chan, drain, kill>>
    /\ UNCHANGED <<devVars, streamVars, waitVars, lastOp, fault>>

(***************************************************************************)
(* SpecSession: caller threads construct and drop sessions concurrently,   *)
(* the drain threads run, native threads broadcast.                        *)
(***************************************************************************)
NextSession ==
    \/ \E t \in Threads : NewCheck(t)
    \/ \E t \in Threads : NewInit(t)
    \/ \E t \in Threads : NewInstall(t)
    \/ \E t \in Threads : NewSpawn(t)
    \/ \E s \in Sessions : DrainRecv(s)
    \/ \E s \in Sessions : DrainKill(s)
    \/ \E code \in BroadcastCodes : BroadcastCb(code)
    \/ \E s \in Sessions : DropSignal(s)
    \/ \E s \in Sessions : DropJoin(s)
    \/ \E s \in Sessions : DropClear(s)

SpecSession == Init /\ [][NextSession]_vars

(***************************************************************************)
(* SpecSdk: one caller thread uses the whole Sdk interface (new, list,     *)
(* connect, drop), session after session, beside the drain thread and the  *)
(* native broadcasts.                                                      *)
(***************************************************************************)
SingleCaller == {CHOOSE t \in Threads : TRUE}

NextSdk ==
    \/ \E t \in SingleCaller : NewCheck(t)
    \/ \E t \in SingleCaller : NewInit(t)
    \/ \E t \in SingleCaller : NewInstall(t)
    \/ \E t \in SingleCaller : NewSpawn(t)
    \/ \E s \in Sessions : DrainRecv(s)
    \/ \E s \in Sessions : DrainKill(s)
    \/ \E code \in BroadcastCodes : BroadcastCb(code)
    \/ \E s \in Sessions : ListKnownDevices(s)
    \/ \E s \in Sessions, code \in ConnectArgs : Connect(s, code)
    \/ \E s \in Sessions : DropSignal(s)
    \/ \E s \in Sessions : DropJoin(s)
    \/ \E s \in Sessions : DropClear(s)

SpecSdk == Init /\ [][NextSdk]_vars

(***************************************************************************)
(* SpecDiscovery: the session life cycle with its discovery traffic, under *)
(* fair scheduling. One caller constructs, lists and drops sessions; the   *)
(* drain thread is an OS thread that spins without blocking, and the       *)
(* caller inside drop is blocked in join only until the thread has ended:  *)
(* each of their steps is taken eventually once it stays possible. Native  *)
(* notifications and new calls of the caller are under no obligation.      *)
(***************************************************************************)
NextDiscovery ==
    \/ \E t \in SingleCaller : NewCheck(t)
    \/ \E t \in SingleCaller : NewInit(t)
    \/ \E t \in SingleCaller : NewInstall(t)
    \/ \E t \in SingleCaller : NewSpawn(t)
    \/ \E s \in Sessions : DrainRecv(s)
    \/ \E s \in Sessions : DrainKill(s)
    \/ \E code \in BroadcastCodes : BroadcastCb(code)
    \/ \E s \in Sessions : ListKnownDevices(s)
    \/ \E s \in Sessions : DropSignal(s)
    \/ \E s \in Sessions : DropJoin(s)
    \/ \E s \in Sessions : DropClear(s)

DrainThread(s) == DrainRecv(s) \/ DrainKill(s)

DropBody(s) == DropJoin(s) \/ DropClear(s)

FairDiscovery == \A s \in Sessions : WF_vars(DrainThread(s)) /\ WF_vars(DropBody(s))

SpecDiscovery == Init /\ [][NextDiscovery]_vars /\ FairDiscovery

(***************************************************************************)
(* The packet decoder, datapacket.rs. A raw packet is the LivoxEthPacket   *)
(* the native layer hands to data_cb: header fields, 8 timestamp bytes and *)
(* the payload bytes; data_size is the declared number of points.          *)
(***************************************************************************)
\* Mutant of ClearPpsBit: bit 10 is cleared instead of bit 9.
ClearBitTen(err_code) == err_code - ((err_code \div 1024) % 2) * 1024

\* err_code & !(1 << 9) on a u32: the error code with bit 9 cleared
ClearPpsBit(err_code) == err_code - ((err_code \div 512) % 2) * 512

\* A u64 is kept as its 8 base-256 digits, most significant first (a model value
\* is a 32-bit integer). val * 256 + byte, wrapping in 64 bits, shifts the digits.
U64Zero == <<0, 0, 0, 0, 0, 0, 0, 0>>

U64MulAdd(val, byte) == Append(Tail(val), byte)

\* datapacket.rs:110-116  parse_timestamp: for i in 0..8 { val = val * 256 + data[i] }
RECURSIVE ParseTimestampFrom(_, _, _)
ParseTimestampFrom(data, i, val) ==
    IF i > 8 THEN val
    ELSE ParseTimestampFrom(data, i + 1, U64MulAdd(val, data[i]))

\* Mutant of parse_timestamp: the least significant byte comes first.
parse_timestamp_le(data) == [i \in 1..8 |-> data[9 - i]]

parse_timestamp(data) == ParseTimestampFrom(data, 1, U64Zero)

\* byteorder read_u16 / read_i32 / read_u32 ::<LittleEndian> at offset o (0-based);
\* a u32 is kept as <<high 16 bits, low 16 bits>>.
ReadU16(data, o) == data[o + 1] + 256 * data[o + 2]

\* Mutant of ReadI32: the most significant byte comes first.
ReadI32BigEndian(data, o) ==
    data[o + 4] + 256 * data[o + 3] + 65536 * data[o + 2]
        + 16777216 * (IF data[o + 1] >= 128 THEN data[o + 1] - 256 ELSE data[o + 1])

ReadI32(data, o) ==
    data[o + 1] + 256 * data[o + 2] + 65536 * data[o + 3]
        + 16777216 * (IF data[o + 4] >= 128 THEN data[o + 4] - 256 ELSE data[o + 4])

ReadU32(data, o) == <<ReadU16(data, o + 2), ReadU16(data, o)>>

\* `as f32` (datapacket.rs:41-43,58-60): an f32 keeps 24 significant bits, the
\* conversion rounds to nearest, ties to even. The result is <<m, k>>, the value
\* m * 2^k with |m| <= 2^24. F32Round rounds the magnitude q * 2^k + r (r < 2^k).
F32Round(q, r, k) ==
    LET up == (2 * r > 2 ^ k) \/ (2 * r = 2 ^ k /\ q % 2 = 1)
    IN  <<IF up THEN q + 1 ELSE q, k>>

F32Mag(n) ==
    LET k == CHOOSE j \in 0..7 :
                 /\ n \div (2 ^ j) < 16777216
                 /\ j = 0 \/ n \div (2 ^ (j - 1)) >= 16777216
    IN  F32Round(n \div (2 ^ k), n % (2 ^ k), k)

I32AsF32(x) ==
    IF x = -2147483647 - 1 THEN <<-16777216, 7>>
    ELSE IF x < 0 THEN <<-(F32Mag(-x)[1]), F32Mag(-x)[2]>>
    ELSE F32Mag(x)

\* a u32 <<hi, lo>>: below 2^24 it is exact, above it the low k bits are rounded away
U32AsF32(u) ==
    LET hi == u[1]
        lo == u[2]
        k == CHOOSE j \in 0..8 :
                 /\ hi \div (2 ^ j) < 256
                 /\ j = 0 \/ hi \div (2 ^ (j - 1)) >= 256
    IN  F32Round((hi \div (2 ^ k)) * 65536 + (hi % (2 ^ k)) * (2 ^ (16 - k)) + lo \div (2 ^ k),
                 lo % (2 ^ k), k)

\* datapacket.rs:32-47  add_cartesian: one point per 13-byte record. A coordinate
\* is kept as the pair <<f, 1000>> standing for the f32 quotient f / 1000.0.
add_cartesian(data, npoints) ==
    [i \in 1..npoints |->
        LET o == 13 * (i - 1)
        IN  [shape |-> "Cartesian",
             x |-> <<I32AsF32(ReadI32(data, o)), 1000>>,
             y |-> <<I32AsF32(ReadI32(data, o + 4)), 1000>>,
             z |-> <<I32AsF32(ReadI32(data, o + 8)), 1000>>,
             reflectivity |-> data[o + 13]]]

\* Mutant of add_spherical: the records are taken from the last to the first.
add_spherical_reversed(data, npoints) ==
    [i \in 1..npoints |->
        LET o == 9 * (npoints - i)
        IN  [shape |-> "Spherical",
             depth |-> <<U32AsF32(ReadU32(data, o)), 1000>>,
             theta |-> <<ReadU16(data, o + 4), 100>>,
             phi |-> <<ReadU16(data, o + 6), 100>>,
             reflectivity |-> data[o + 9]]]

\* datapacket.rs:49-64  add_spherical: one point per 9-byte record. theta and phi
\* are kept as <<raw, 100>> standing for raw as f32 / 100.0 / 180.0 * 3.14159265
\* (a u16 is exact in an f32).
add_spherical(data, npoints) ==
    [i \in 1..npoints |->
        LET o == 9 * (i - 1)
        IN  [shape |-> "Spherical",
             depth |-> <<U32AsF32(ReadU32(data, o)), 1000>>,
             theta |-> <<ReadU16(data, o + 4), 100>>,
             phi |-> <<ReadU16(data, o + 6), 100>>,
             reflectivity |-> data[o + 9]]]

\* datapacket.rs:98,101  the record size the payload is sliced with
RecordSize(data_type) == IF data_type = 0 THEN 13 ELSE 9

\* datapacket.rs:76-88,96-104  the panic the header fields lead to, or "none"
HeaderPanic(p) ==
    IF ClearPpsBit(p.err_code) # 0 THEN "Error code in data packet"
    ELSE IF p.version # 5 THEN "Unknown data version"
    ELSE IF p.timestamp_type # 0 THEN "Unknown timestamp type"
    ELSE IF p.data_type \notin {0, 1} THEN "Unknown data type"
    ELSE "none"

\* datapacket.rs:98,101  std::slice::from_raw_parts(&(*data).data[0], len): len bytes
\* of memory from the first payload byte on, whatever the packet really holds. A
\* slice that extends past the payload reads memory the packet does not own
\* (undefined behaviour): the read faults (-1) or finds some byte value there.
MemoryBeyond(p, data_size) ==
    IF HeaderPanic(p) = "none" /\ data_size * RecordSize(p.data_type) > Len(p.data)
    THEN {-1, 0, 255}
    ELSE {0}

from_raw_parts(data, len, beyond) ==
    [i \in 1..len |-> IF i <= Len(data) THEN data[i] ELSE beyond]

\* datapacket.rs:67-107  From<(*mut LivoxEthPacket, u32)>: the panic (or fault)
\* reached first, or "none". The assertions of add_cartesian / add_spherical
\* (datapacket.rs:33,50) compare the slice built with data_size * record size
\* bytes against that same product.
DecodePanic(p, data_size, beyond) ==
    IF HeaderPanic(p) # "none" THEN HeaderPanic(p)
    ELSE IF beyond = -1 THEN "read beyond the packet payload"
    ELSE IF Len(from_raw_parts(p.data, data_size * RecordSize(p.data_type), beyond))
               # data_size * RecordSize(p.data_type)
    THEN "assertion failed: data.len() == npoints * record size"
    ELSE "none"

DataPacketFrom(p, data_size, beyond) ==
    [timestamp |-> parse_timestamp(p.timestamp),
     points |-> IF p.data_type = 0
                THEN add_cartesian(from_raw_parts(p.data, data_size * 13, beyond), data_size)
                ELSE add_spherical(from_raw_parts(p.data, data_size * 9, beyond), data_size)]

(***************************************************************************)
(* DataStream, device.rs:8-58, and data_cb, callbacks.rs:48-58.            *)
(***************************************************************************)
\* The packets native threads deliver in SpecStream: the k-th call carries the
\* timestamp k and no points; it is well formed (with the PPS bit set) or has an
\* unsupported version.
StreamPacket(k, version, err_code) ==
    [version |-> version, err_code |-> err_code, timestamp_type |-> 0, data_type |-> 0,
     timestamp |-> <<0, 0, 0, 0, 0, 0, 0, k>>, data |-> <<>>]

StreamPackets(k) == {StreamPacket(k, 5, 512), StreamPacket(k, 4, 0)}

\* device.rs:17-20  DATA_PIPES.insert(handle, sender): insert replaces (and drops)
\* a sender already stored under the handle.
Register(pipes, handle, sender) == MapInsert(pipes, handle, sender)

\* device.rs:102-105  Device::start_sampling calls DataStream::new(self.handle);
\* device.rs:15-20  its first statements: channel(), then the insert under the lock
StartSampling(h) ==
    /\ Running
    /\ h \in devices
    /\ \E d \in Streams :
          /\ stream[d] = "unused"
          /\ \A e \in Streams : e < d => stream[e] # "unused"
          /\ DATA_PIPES' = Register(DATA_PIPES, h, d)
          /\ stream' = [stream EXCEPT ![d] = "starting"]
          /\ shandle' = [shandle EXCEPT ![d] = h]
    /\ dropped_since' = [dropped_since EXCEPT ![h] = [dropped |-> FALSE, calls |-> 0]]
    /\ UNCHANGED <<data_chan, invoked, polled, ncalls, last_cb>>
    /\ UNCHANGED <<sdkVars, devVars, waitVars, lastOp, fault>>

\* device.rs:21-28  SetDataCallback, LidarStartSampling, Ok(DataStream{..}): the
\* caller now holds the stream
StartCommands(d) ==
    /\ Running
    /\ stream[d] = "starting"
    /\ stream' = [stream EXCEPT ![d] = "open"]
    /\ lastOp' = [name |-> "start_sampling", who |-> shandle[d], arg |-> <<>>, res |-> "Ok",
                  out |-> {d}]
    /\ UNCHANGED <<DATA_PIPES, shandle, data_chan, invoked, polled, dropped_since, ncalls, last_cb>>
    /\ UNCHANGED <<sdkVars, devVars, waitVars, fault>>

\* The sender of stream d's channel is still stored in the registry.
SenderAlive(d) == \E h \in DOMAIN DATA_PIPES : DATA_PIPES[h] = d

\* device.rs:35-47  Iterator::next: try_recv
Poll(d) ==
    /\ Running
    /\ stream[d] = "open"
    /\ IF data_chan[d] # <<>>
       THEN /\ data_chan' = [data_chan EXCEPT ![d] = Tail(@)]
            /\ polled' = [polled EXCEPT ![d] = Append(@, Head(data_chan[d]))]
            /\ lastOp' = [name |-> "next", who |-> d, arg |-> <<>>, res |-> "Some",
                          out |-> {Head(data_chan[d])}]
            /\ UNCHANGED fault
       ELSE IF SenderAlive(d)
       THEN /\ lastOp' = [name |-> "next", who |-> d, arg |-> <<>>, res |-> "None", out |-> {}]
            /\ UNCHANGED <<data_chan, polled, fault>>
       ELSE /\ Panic("DataStream::next: Received disconnect error in DataStream iterator!")
            /\ lastOp' = [name |-> "next", who |-> d, arg |-> <<>>, res |-> "panic", out |-> {}]
            /\ UNCHANGED <<data_chan, polled>>
    /\ UNCHANGED <<DATA_PIPES, stream, shandle, invoked, dropped_since, ncalls, last_cb>>
    /\ UNCHANGED <<sdkVars, devVars, waitVars>>

\* device.rs:52-54  Drop for DataStream, first statement: LidarStopSampling
DropStop(d) ==
    /\ Running
    /\ stream[d] = "open"
    /\ stream' = [stream EXCEPT ![d] = "stopping"]
    /\ UNCHANGED <<DATA_PIPES, shandle, data_chan, invoked, polled, dropped_since, ncalls, last_cb>>
    /\ UNCHANGED <<sdkVars, devVars, waitVars, lastOp, fault>>

\* Mutant of Deregister: the entry is left in the registry.
DeregisterForgotten(pipes, handle) == pipes

\* Mutant of Deregister: the entry of the next handle is removed instead.
DeregisterNeighbour(pipes, handle) == MapRemove(pipes, (handle + 1) % (MaxHandle + 1))

\* device.rs:56  DATA_PIPES.remove(&self.handle): whatever is stored under the handle
Deregister(pipes, handle) == MapRemove(pipes, handle)

\* device.rs:56-58  second statement of drop, then the receiver is released with
\* what it still holds
DropRemove(d) ==
    /\ Running
    /\ stream[d] = "stopping"
    /\ DATA_PIPES' = Deregister(DATA_PIPES, shandle[d])
    /\ stream' = [stream EXCEPT ![d] = "dropped"]
    /\ data_chan' = [data_chan EXCEPT ![d] = <<>>]
    /\ invoked' = [invoked EXCEPT ![d] = <<>>]
    /\ polled' = [polled EXCEPT ![d] = <<>>]
    /\ dropped_since' = [dropped_since EXCEPT ![shandle[d]] = [dropped |-> TRUE, calls |-> 0]]
    /\ UNCHANGED <<shandle, ncalls, last_cb>>
    /\ UNCHANGED <<sdkVars, devVars, waitVars, lastOp, fault>>

\* Mutant of Lookup: the handle is ignored, any registered sender is taken.
LookupAny(pipes, handle) == IF DOMAIN pipes = {} THEN {} ELSE {pipes[CHOOSE h \in DOMAIN pipes : TRUE]}

\* Mutant of Lookup: the sender of the next handle is taken.
LookupNeighbour(pipes, handle) ==
    LET other == (handle + 1) % (MaxHandle + 1)
    IN  IF other \in DOMAIN pipes THEN {pipes[other]} ELSE {}

\* callbacks.rs:49  DATA_PIPES.get(&handle): {} for None, {sender} for Some(sender)
Lookup(pipes, handle) == IF handle \in DOMAIN pipes THEN {pipes[handle]} ELSE {}

\* callbacks.rs:48-58  data_cb, invoked by a native thread; the registry lock is
\* held from the lookup to the end of the match, so the body is one step.
DataCb(h, p, data_size) ==
    /\ Running
    /\ ncalls < MaxCalls
    /\ ncalls' = ncalls + 1
    /\ dropped_since' = [dropped_since EXCEPT ![h] =
                            IF @.dropped THEN [@ EXCEPT !.calls = @ + 1] ELSE @]
    /\ IF Lookup(DATA_PIPES, h) = {}
       THEN \* This can happen after the data stream is closed
            /\ last_cb' = [handle |-> h, data |-> p, data_size |-> data_size, beyond |-> 0]
            /\ invoked' = [d \in Streams |->
                             IF h \in DOMAIN DATA_PIPES /\ DATA_PIPES[h] = d
                             THEN Append(invoked[d], <<p, data_size, 0>>) ELSE invoked[d]]
            /\ UNCHANGED <<data_chan, fault>>
       ELSE \E beyond \in MemoryBeyond(p, data_size) :
            LET d == CHOOSE x \in Lookup(DATA_PIPES, h) : TRUE
            IN  /\ last_cb' = [handle |-> h, data |-> p, data_size |-> data_size,
                               beyond |-> beyond]
                /\ invoked' = [e \in Streams |->
                                 IF h \in DOMAIN DATA_PIPES /\ DATA_PIPES[h] = e
                                 THEN Append(invoked[e], <<p, data_size, beyond>>)
                                 ELSE invoked[e]]
                /\ IF DecodePanic(p, data_size, beyond) # "none"
                   THEN /\ Panic(DecodePanic(p, data_size, beyond))
                        /\ UNCHANGED data_chan
                   ELSE IF stream[d] = "dropped"
                   THEN /\ Panic("data_cb: send on a disconnected channel")
                        /\ UNCHANGED data_chan
                   ELSE /\ data_chan' = [data_chan EXCEPT
                                            ![d] = Append(@, DataPacketFrom(p, data_size, beyond))]
                        /\ UNCHANGED fault
    /\ UNCHANGED <<DATA_PIPES, stream, shandle, polled>>
    /\ UNCHANGED <<sdkVars, devVars, waitVars, lastOp>>

\* device.rs:67-75  Device::new (pub): insert (handle, Unknown), Ok(Device{handle})
DeviceNew(h) ==
    /\ Running
    /\ state_lock = Unlocked
    /\ DEVICE_STATES' = DeviceNewTable(DEVICE_STATES, h)
    /\ table_op' = [kind |-> "new", handle |-> h, state |-> LidarStateUnknown]
    /\ devices' = devices \cup {h}
    /\ UNCHANGED <<notified, sdkVars, streamVars, waitVars, lastOp, fault>>

(***************************************************************************)
(* SpecStream: devices are created, streams are started, polled and        *)
(* dropped by caller threads while native threads deliver packets.         *)
(***************************************************************************)
NextStream ==
    \/ \E h \in Handles : DeviceNew(h)
    \/ \E h \in Handles : StartSampling(h)
    \/ \E d \in Streams : StartCommands(d)
    \/ \E d \in Streams : Poll(d)
    \/ \E d \in Streams : DropStop(d)
    \/ \E d \in Streams : DropRemove(d)
    \/ \E h \in Handles : \E p \in StreamPackets(ncalls + 1) : DataCb(h, p, 0)

SpecStream == Init /\ [][NextStream]_vars

(***************************************************************************)
(* The Device State Table: device_state_update_cb, callbacks.rs:30-42, and *)
(* Device::wait_for_state, device.rs:77-91.                                *)
(***************************************************************************)
\* Bitwise and of two naturals.
RECURSIVE BitAnd(_, _)
BitAnd(a, b) ==
    IF a = 0 \/ b = 0 THEN 0
    ELSE (a % 2) * (b % 2) + 2 * BitAnd(a \div 2, b \div 2)

\* Mutant of FromU32Some: every value converts.
FromU32Always(state) == TRUE

\* num_traits FromPrimitive derive on LidarState (enums.rs:9-18): Some for 0..5
FromU32Some(state) == state \in LidarStates

\* The state values a notification may carry: the six recognised ones and one more.
NotifiedStates == LidarStates \cup {6}

\* callbacks.rs:30-42  the table is locked first, then the state is converted: an
\* unrecognised value panics and nothing is inserted
StateUpdateCb(h, state) ==
    /\ Running
    /\ state_lock = Unlocked
    /\ table_op' = [kind |-> "notify", handle |-> h, state |-> state]
    /\ IF FromU32Some(state)
       THEN /\ DEVICE_STATES' = MapInsert(DEVICE_STATES, h, state)
            /\ notified' = MapInsert(notified, h, state)
            /\ UNCHANGED fault
       ELSE /\ Panic("device_state_update_cb: Got unknown state")
            /\ UNCHANGED <<DEVICE_STATES, notified>>
    /\ UNCHANGED <<devices, sdkVars, streamVars, waitVars, lastOp>>

\* device.rs:82-85  the stored state, Unknown when the handle has no entry
StoredState(states, handle) == IF handle \in DOMAIN states THEN states[handle] ELSE LidarStateUnknown

\* Mutant of MaskAllows: the state's discriminant is used as the bit mask.
MaskAllowsUnshifted(state_mask, state) == BitAnd(state_mask, state) # 0

\* device.rs:87  state_mask as u32 & (1 << (state) as u32) != 0
MaskAllows(state_mask, state) == BitAnd(state_mask, 2 ^ state) # 0

\* A caller enters wait_for_state(state_mask) on a Device with the given handle.
WaitCall(w, h, state_mask) ==
    /\ Running
    /\ wpc[w] = "idle"
    /\ h \in devices
    /\ wpc' = [wpc EXCEPT ![w] = "polling"]
    /\ whandle' = [whandle EXCEPT ![w] = h]
    /\ wmask' = [wmask EXCEPT ![w] = state_mask]
    /\ wpolls' = [wpolls EXCEPT ![w] = 0]
    /\ UNCHANGED <<state_lock, lockVars>>
    /\ UNCHANGED <<devVars, sdkVars, streamVars, lastOp, fault>>

\* device.rs:82  DEVICE_STATES.lock().unwrap() at the top of an iteration
WaitLock(w) ==
    /\ Running
    /\ wpc[w] = "polling"
    /\ wpolls[w] < MaxPolls
    /\ state_lock = Unlocked
    /\ state_lock' = w
    /\ wpc' = [wpc EXCEPT ![w] = "locked"]
    /\ UNCHANGED <<whandle, wmask, wpolls, lockVars>>
    /\ UNCHANGED <<devVars, sdkVars, streamVars, lastOp, fault>>

\* Mutant of Release: the guard is kept until the call returns.
ReleaseKept(holder) == holder

\* device.rs:85  the guard is a temporary of the let statement: it is dropped when
\* the statement ends, before the test
Release(holder) == Unlocked

\* device.rs:82-90  the rest of the iteration: read the state, release the lock, test,
\* break or repeat
WaitPoll(w) ==
    /\ Running
    /\ wpc[w] = "locked"
    /\ wpolls' = [wpolls EXCEPT ![w] = @ + 1]
    /\ state_lock' = Release(state_lock)
    /\ IF MaskAllows(wmask[w], StoredState(DEVICE_STATES, whandle[w]))
       THEN wpc' = [wpc EXCEPT ![w] = "returned"]
       ELSE wpc' = [wpc EXCEPT ![w] = "polling"]
    /\ UNCHANGED <<whandle, wmask, lockVars>>
    /\ UNCHANGED <<devVars, sdkVars, streamVars, lastOp, fault>>

(***************************************************************************)
(* Device::set_mode and Device::set_coordinate_system, device.rs:93-118:   *)
(* one native command each, whose result is ignored.                       *)
(***************************************************************************)
LidarModeNormal == 1
LidarModePowerSaving == 2
LidarModeStandby == 3

LidarModes == {LidarModeNormal, LidarModePowerSaving, LidarModeStandby}

CoordinateSystems == {"Cartesian", "Spherical"}

\* Mutant of SetMode: the commanded mode is stored as the state of the handle.
SetModeStored(h, mode) ==
    /\ Running
    /\ h \in devices
    /\ DEVICE_STATES' = MapInsert(DEVICE_STATES, h, mode)
    /\ lastOp' = [name |-> "set_mode", who |-> h, arg |-> <<mode>>, res |-> "()", out |-> {}]
    /\ UNCHANGED <<devices, notified, table_op>>
    /\ UNCHANGED <<sdkVars, streamVars, waitVars, fault>>

\* device.rs:95-98  LidarSetMode(self.handle, mode.to_u32().unwrap(), ..); returns ()
SetMode(h, mode) ==
    /\ Running
    /\ h \in devices
    /\ lastOp' = [name |-> "set_mode", who |-> h, arg |-> <<mode>>, res |-> "()", out |-> {}]
    /\ UNCHANGED <<sdkVars, devVars, streamVars, waitVars, fault>>

\* device.rs:107-118  SetCartesianCoordinate / SetSphericalCoordinate; returns Ok(())
SetCoordinateSystem(h, system) ==
    /\ Running
    /\ h \in devices
    /\ lastOp' = [name |-> "set_coordinate_system", who |-> h, arg |-> <<system>>,
                  res |-> "Ok", out |-> {}]
    /\ UNCHANGED <<sdkVars, devVars, streamVars, waitVars, fault>>

(***************************************************************************)
(* SpecState: devices are created, native threads report state changes,    *)
(* callers wait.                                                           *)
(***************************************************************************)
NextState ==
    \/ \E h \in Handles : DeviceNew(h)
    \/ \E h \in Handles, state \in NotifiedStates : StateUpdateCb(h, state)
    \/ \E w \in Waiters, h \in Handles, m \in LidarStateMasks : WaitCall(w, h, m)
    \/ \E w \in Waiters : WaitLock(w)
    \/ \E w \in Waiters : WaitPoll(w)

SpecState == Init /\ [][NextState]_vars

\* The thread inside wait_for_state spins without sleeping or blocking between its
\* statements: each step of its loop is taken once it stays possible. Notifications
\* and new calls are under no obligation.
FairWaiters == \A w \in Waiters : WF_vars(WaitLock(w)) /\ WF_vars(WaitPoll(w))

SpecStateFair == SpecState /\ FairWaiters

(***************************************************************************)
(* SpecFrame: every operation that may run beside the Device State Table   *)
(* in one program: a session is created, used and torn down by one caller, *)
(* devices are connected, commanded and waited on, streams are started,    *)
(* polled and dropped, and the native threads deliver broadcast, data and  *)
(* state-change notifications. Inputs are one value of each kind.          *)
(***************************************************************************)
FrameStates == {LidarStateNormal}
FrameCodes == {CodeNulTerminated}
FrameCalls == 1
\* The identity that is notified, commanded, streamed and waited on; connect
\* and Device::new reach every identity.
FrameHandles == {CHOOSE h \in Handles : TRUE}
OneSession == Allocated = 0
OneStream == \A d \in Streams : stream[d] = "unused"

NextFrame ==
    \/ \E t \in SingleCaller : OneSession /\ NewCheck(t)
    \/ \E t \in SingleCaller : NewInit(t)
    \/ \E t \in SingleCaller : NewInstall(t)
    \/ \E t \in SingleCaller : NewSpawn(t)
    \/ \E s \in Sessions : DrainRecv(s)
    \/ \E s \in Sessions : DrainKill(s)
    \/ \E code \in FrameCodes : BroadcastCb(code)
    \/ \E s \in Sessions, code \in FrameCodes : Connect(s, code)
    \/ \E s \in Sessions : DropSignal(s)
    \/ \E s \in Sessions : DropJoin(s)
    \/ \E s \in Sessions : DropClear(s)
    \/ \E h \in Handles : DeviceNew(h)
    \/ \E h \in FrameHandles, mode \in LidarModes : SetMode(h, mode)
    \/ \E h \in FrameHandles, system \in CoordinateSystems : SetCoordinateSystem(h, system)
    \/ \E h \in FrameHandles : OneStream /\ StartSampling(h)
    \/ \E d \in Streams : StartCommands(d)
    \/ \E d \in Streams : Poll(d)
    \/ \E d \in Streams : DropStop(d)
    \/ \E d \in Streams : DropRemove(d)
    \/ \E h \in FrameHandles : ncalls < FrameCalls /\ DataCb(h, StreamPacket(ncalls + 1, 5, 512), 0)
    \/ \E h \in FrameHandles, state \in FrameStates : StateUpdateCb(h, state)
    \/ \E w \in Waiters, h \in FrameHandles : WaitCall(w, h, MaskNormal)
    \/ \E w \in Waiters : WaitLock(w)
    \/ \E w \in Waiters : WaitPoll(w)

SpecFrame == Init /\ [][NextFrame]_vars

(***************************************************************************)
(* SpecDecode: a stream is started and native threads hand data_cb raw     *)
(* packets of every kind: each combination of header fields, several       *)
(* timestamps, Cartesian and Spherical payloads whose length does or does  *)
(* not agree with the declared number of points.                           *)
(***************************************************************************)
MaxDecodes == 2

RawPacket(version, err_code, timestamp_type, data_type, timestamp, data) ==
    [version |-> version, err_code |-> err_code, timestamp_type |-> timestamp_type,
     data_type |-> data_type, timestamp |-> timestamp, data |-> data]

\* x = 1000, y = -1000, z = 16777217 (not an f32), reflectivity 200
CartesianRecordA == <<232, 3, 0, 0,  24, 252, 255, 255,  1, 0, 0, 1,  200>>

\* x = -2^31, y = 2^31 - 1, z = 0, reflectivity 7
CartesianRecordB == <<0, 0, 0, 128,  255, 255, 255, 127,  0, 0, 0, 0,  7>>

\* depth = 16777217, theta = 10000, phi = 65535, reflectivity 9
SphericalRecordA == <<1, 0, 0, 1,  16, 39,  255, 255,  9>>

\* depth = 1000, theta = 0, phi = 1, reflectivity 255
SphericalRecordB == <<232, 3, 0, 0,  0, 0,  1, 0,  255>>

TimestampOne == <<0, 0, 0, 0, 0, 0, 0, 1>>

Timestamps == {TimestampOne, <<1, 0, 0, 0, 0, 0, 0, 0>>, <<1, 2, 3, 4, 5, 6, 7, 8>>,
               <<255, 255, 255, 255, 255, 255, 255, 255>>}

\* Every combination of header fields, with no points.
HeaderInputs ==
    {[p |-> RawPacket(v, e, tt, dt, TimestampOne, <<>>), data_size |-> 0] :
        v \in {4, 5}, e \in {0, 1, 512, 1536}, tt \in {0, 1}, dt \in {0, 1, 2}}

TimestampInputs ==
    {[p |-> RawPacket(5, 512, 0, 0, ts, <<>>), data_size |-> 0] : ts \in Timestamps}

\* Payloads (data type, bytes, declared points): the first five agree with the
\* declared number of points, the others are longer, shorter or not a multiple.
Payloads ==
    {<<0, CartesianRecordA, 1>>,
     <<0, CartesianRecordA \o CartesianRecordB, 2>>,
     <<0, CartesianRecordB \o CartesianRecordA, 2>>,
     <<1, SphericalRecordA, 1>>,
     <<1, SphericalRecordB \o SphericalRecordA, 2>>,
     <<0, CartesianRecordA \o CartesianRecordB, 1>>,
     <<0, CartesianRecordA \o <<5>>, 1>>,
     <<0, CartesianRecordA, 2>>,
     <<1, SphericalRecordA \o SphericalRecordB, 1>>,
     <<1, CartesianRecordA, 1>>,
     <<1, SphericalRecordA, 2>>}

PayloadInputs ==
    {[p |-> RawPacket(5, 0, 0, pl[1], TimestampOne, pl[2]), data_size |-> pl[3]] :
        pl \in Payloads}

DecodeInputs == HeaderInputs \cup TimestampInputs \cup PayloadInputs

NextDecode ==
    \/ \E h \in Handles : DeviceNew(h)
    \/ \E h \in Handles : StartSampling(h)
    \/ \E d \in Streams : StartCommands(d)
    \/ \E h \in Handles, in \in DecodeInputs :
          ncalls < MaxDecodes /\ DataCb(h, in.p, in.data_size)

SpecDecode == Init /\ [][NextDecode]_vars

(***************************************************************************)
(* SpecLocks: the same operations at the grain of their mutex operations.  *)
(* Every operation is the sequence of its lock(), unlock (the drop of the  *)
(* MutexGuard), native calls, channel operations and join, in the order of *)
(* the source; threads interleave between any two of these steps. lock()   *)
(* waits while another thread, or the thread itself, holds the mutex.      *)
(***************************************************************************)
Lock(l) == [do |-> "lock", on |-> l]
Unlock(l) == [do |-> "unlock", on |-> l]
Plain(what) == [do |-> what, on |-> ""]

\* sdk.rs:37-51,61  the match on the slot, Init(), the install, thread::spawn
NewProgram ==
    <<Lock("BROADCAST_PIPE"), Unlock("BROADCAST_PIPE"), Plain("native"),
      Lock("BROADCAST_PIPE"), Unlock("BROADCAST_PIPE"), Plain("spawn")>>

\* sdk.rs:37-40  the slot is occupied: return Err(())
NewBusyProgram == <<Lock("BROADCAST_PIPE"), Unlock("BROADCAST_PIPE")>>

\* sdk.rs:124-131  the guard lives to the end of the function
ListProgram == <<Lock("known_devices"), Unlock("known_devices")>>

\* sdk.rs:101-112, device.rs:67-75  AddLidarToConnect, then Device::new
ConnectProgram == <<Plain("native"), Lock("DEVICE_STATES"), Unlock("DEVICE_STATES")>>

\* device.rs:82-87  one iteration of wait_for_state: the guard is a temporary of the
\* let statement
WaitProgram == <<Lock("DEVICE_STATES"), Unlock("DEVICE_STATES"), Plain("test")>>

\* device.rs:14-24  insert, then SetDataCallback and LidarStartSampling
StartProgram == <<Lock("DATA_PIPES"), Unlock("DATA_PIPES"), Plain("native")>>

\* device.rs:35  try_recv takes none of the four locks
NextProgram == <<Plain("try_recv")>>

\* device.rs:52-56  LidarStopSampling, then remove
StreamDropProgram == <<Plain("native"), Lock("DATA_PIPES"), Unlock("DATA_PIPES")>>

\* sdk.rs:136-147  Uninit(), kill.send, handle.join(), clear the slot
SdkDropProgram ==
    <<Plain("native"), Plain("send_kill"), Plain("join"),
      Lock("BROADCAST_PIPE"), Unlock("BROADCAST_PIPE")>>

\* callbacks.rs:14-23  the guard is a local: held over the send to the end
BroadcastCbProgram == <<Lock("BROADCAST_PIPE"), Plain("send"), Unlock("BROADCAST_PIPE")>>

\* callbacks.rs:32-41  the guard is a temporary of the insert statement
StateCbProgram == <<Lock("DEVICE_STATES"), Unlock("DEVICE_STATES")>>

\* Mutant of DataCbProgram: the callback also records the device as sampling in the
\* state table while it holds the registry.
DataCbProgramNested ==
    <<Lock("DATA_PIPES"), Lock("DEVICE_STATES"), Unlock("DEVICE_STATES"), Plain("send"),
      Unlock("DATA_PIPES")>>

\* callbacks.rs:49-57  the guard is a temporary of the match: held over the decode
\* and the send
DataCbProgram ==
    <<Lock("DATA_PIPES"), Plain("decode"), Plain("send"), Unlock("DATA_PIPES")>>

\* sdk.rs:63-85  one iteration of the drain loop with a notification received
DrainProgram ==
    <<Plain("try_recv"), Lock("known_devices"), Unlock("known_devices"), Plain("try_recv_kill")>>

CallerOps == {"new", "new_busy", "list", "connect", "wait_for_state", "start_sampling",
              "next", "stream_drop", "sdk_drop"}

NativeOps == {"broadcast_cb", "state_cb", "data_cb"}

LockProgram(op) ==
    CASE op = "new" -> NewProgram
      [] op = "new_busy" -> NewBusyProgram
      [] op = "list" -> ListProgram
      [] op = "connect" -> ConnectProgram
      [] op = "wait_for_state" -> WaitProgram
      [] op = "start_sampling" -> StartProgram
      [] op = "next" -> NextProgram
      [] op = "stream_drop" -> StreamDropProgram
      [] op = "sdk_drop" -> SdkDropProgram
      [] op = "broadcast_cb" -> BroadcastCbProgram
      [] op = "state_cb" -> StateCbProgram
      [] op = "data_cb" -> DataCbProgram
      [] op = "drain" -> DrainProgram

\* The step a thread is about to take.
AtStep(t) == LockProgram(lpc[t].op)[lpc[t].at]

MidOp(t) == lpc[t] # Idle

\* After its last step an operation returns; the drain loop starts over.
Advance(t) ==
    IF lpc[t].at < Len(LockProgram(lpc[t].op)) THEN [lpc[t] EXCEPT !.at = @ + 1]
    ELSE IF lpc[t].op = "drain" THEN [lpc[t] EXCEPT !.at = 1]
    ELSE Idle

OtherVars == <<sdkVars, devVars, streamVars, wpc, whandle, wmask, wpolls, state_lock, lastOp, fault>>

\* A caller enters an operation. Sdk::new runs its full course when no session
\* exists and returns at the first match otherwise; list, connect and drop need the
\* Sdk value of a session, which one caller owns.
Busy(op) == \E u \in Threads : lpc[u].op = op

LockBegin(t, op) ==
    /\ ~MidOp(t)
    /\ \/ t \in Threads /\ op \in CallerOps
       \/ t = NativeThread /\ op \in NativeOps
    /\ op = "new" => (ldrain = "none" /\ ~Busy("new"))
    /\ op = "new_busy" => ldrain = "running"
    /\ op \in {"list", "connect", "sdk_drop"} => (ldrain = "running" /\ ~Busy("sdk_drop"))
    /\ lpc' = [lpc EXCEPT ![t] = [op |-> op, at |-> 1]]
    /\ UNCHANGED <<held, lkill, ldrain>>
    /\ UNCHANGED OtherVars

\* Mutex::lock: returns once no thread holds the mutex
LockAcquire(t) ==
    /\ MidOp(t)
    /\ AtStep(t).do = "lock"
    /\ held[AtStep(t).on] = Unlocked
    /\ held' = [held EXCEPT ![AtStep(t).on] = t]
    /\ lpc' = [lpc EXCEPT ![t] = Advance(t)]
    /\ UNCHANGED <<lkill, ldrain>>
    /\ UNCHANGED OtherVars

\* the MutexGuard is dropped
LockRelease(t) ==
    /\ MidOp(t)
    /\ AtStep(t).do = "unlock"
    /\ held' = [held EXCEPT ![AtStep(t).on] = Unlocked]
    /\ lpc' = [lpc EXCEPT ![t] = Advance(t)]
    /\ UNCHANGED <<lkill, ldrain>>
    /\ UNCHANGED OtherVars

\* a native call, a channel send or try_recv, the decode, the mask test: none waits
\* for another thread of this program
PlainStep(t) ==
    /\ MidOp(t)
    /\ AtStep(t).do \in {"native", "send", "try_recv", "decode", "test"}
    /\ lpc' = [lpc EXCEPT ![t] = Advance(t)]
    /\ UNCHANGED <<held, lkill, ldrain>>
    /\ UNCHANGED OtherVars

\* sdk.rs:61  thread::spawn: the drain thread starts its loop
SpawnStep(t) ==
    /\ MidOp(t)
    /\ AtStep(t).do = "spawn"
    /\ lpc' = [lpc EXCEPT ![t] = Advance(t), ![DrainThreadId] = [op |-> "drain", at |-> 1]]
    /\ ldrain' = "running"
    /\ lkill' = FALSE
    /\ UNCHANGED held
    /\ UNCHANGED OtherVars

\* sdk.rs:143  kill.send(true)
SendKillStep(t) ==
    /\ MidOp(t)
    /\ AtStep(t).do = "send_kill"
    /\ lkill' = TRUE
    /\ lpc' = [lpc EXCEPT ![t] = Advance(t)]
    /\ UNCHANGED <<held, ldrain>>
    /\ UNCHANGED OtherVars

\* sdk.rs:78-85  kill_recv.try_recv(): break on the signal, else loop
KillCheckStep(t) ==
    /\ MidOp(t)
    /\ AtStep(t).do = "try_recv_kill"
    /\ IF lkill
       THEN lpc' = [lpc EXCEPT ![t] = Idle] /\ ldrain' = "ended"
       ELSE lpc' = [lpc EXCEPT ![t] = Advance(t)] /\ UNCHANGED ldrain
    /\ UNCHANGED <<held, lkill>>
    /\ UNCHANGED OtherVars

\* sdk.rs:144  handle.join(): returns once the drain thread has ended
JoinStep(t) ==
    /\ MidOp(t)
    /\ AtStep(t).do = "join"
    /\ ldrain = "ended"
    /\ ldrain' = "none"
    /\ lpc' = [lpc EXCEPT ![t] = Advance(t)]
    /\ UNCHANGED <<held, lkill>>
    /\ UNCHANGED OtherVars

NextLocks ==
    \/ \E t \in LockThreads, op \in CallerOps \cup NativeOps : LockBegin(t, op)
    \/ \E t \in LockThreads : LockAcquire(t)
    \/ \E t \in LockThreads : LockRelease(t)
    \/ \E t \in LockThreads : PlainStep(t)
    \/ \E t \in LockThreads : SpawnStep(t)
    \/ \E t \in LockThreads : SendKillStep(t)
    \/ \E t \in LockThreads : KillCheckStep(t)
    \/ \E t \in LockThreads : JoinStep(t)

SpecLocks == Init /\ [][NextLocks]_vars

(***************************************************************************)
(* Claims about the session.                                               *)
(***************************************************************************)
\* Sessions successfully constructed and not yet dropped; running drain threads.
LiveSessions == {s \in Sessions : sdk[s] \in {"live", "joining", "clearing"}}

RunningThreads == {s \in Sessions : drain[s] \in {"recv", "kill"}}

\* C1: in every reachable state, also with Sdk::new called concurrently from several
\* threads, at most one Sdk session is live and at most one drain thread is running.
C1_AtMostOneSession ==
    /\ Cardinality(LiveSessions) <= 1
    /\ Cardinality(RunningThreads) <= 1

\* A step in which thread t's call of Sdk::new returns Err(()).
FailedNewStep(t) ==
    /\ lastOp' = [name |-> "new", who |-> t, arg |-> <<>>, res |-> "Err", out |-> {}]
    /\ \/ pc[t].at = "idle" /\ pc'[t].at = "idle" /\ lastOp' # lastOp
       \/ pc[t].at = "init" /\ pc'[t].at = "idle"

\* C2: a call of Sdk::new that fails returns Err and changes nothing: the discovery
\* slot keeps its content, no thread is started, the channels and the known-devices
\* sets are untouched (so a live session keeps receiving through the slot); and a
\* call gets past the first check only when the slot is empty.
C2_FailedNewChangesNothing ==
    [][\A t \in Threads :
          /\ FailedNewStep(t) =>
                /\ BROADCAST_PIPE' = BROADCAST_PIPE
                /\ drain' = drain
                /\ sdk' = sdk
                /\ broadcast_chan' = broadcast_chan
                /\ known_devices' = known_devices
                /\ kill' = kill
          /\ (pc[t].at = "idle" /\ pc'[t].at = "init") => BROADCAST_PIPE = None]_vars

\* A call has failed while a constructed session holds the slot, its drain thread
\* runs and discovery has reached its known-devices set.
C2_Witness ==
    /\ lastOp.name = "new" /\ lastOp.res = "Err"
    /\ \E s \in Sessions :
          /\ sdk[s] = "live" /\ BROADCAST_PIPE = s
          /\ drain[s] \in {"recv", "kill"}
          /\ DOMAIN known_devices[s] # {}

\* C3: once connect(c) has returned on a session, no later list_known_devices() of
\* that session returns a list containing c.
C3_ListExcludesConnected ==
    lastOp.name = "list" => lastOp.out \cap connected[lastOp.who] = {}

\* C10: connect with a code that discovery has not seen in this session returns an
\* error, hence never Ok (known_devices only grows while the session is live).
C10_ConnectUnknownRejected ==
    (lastOp.name = "connect" /\ sdk[lastOp.who] = "live")
        => (lastOp.res = "Err" \/ lastOp.arg \in DOMAIN known_devices[lastOp.who])

(***************************************************************************)
(* Claims about Data Streams.                                              *)
(***************************************************************************)
\* A step in which start_sampling on a Device of handle h goes on to construct a
\* stream.
StartStep(h) ==
    \E d \in Streams : stream[d] = "unused" /\ stream'[d] # "unused" /\ shandle'[d] = h

\* C4: start_sampling for an identity that already has a registry entry fails with
\* an error and leaves the existing entry in place: while a handle has an entry no
\* call for it goes on to construct a stream, and the entry is never replaced.
C4_SecondStartRejected ==
    [][\A h \in Handles :
          h \in DOMAIN DATA_PIPES =>
             /\ ~StartStep(h)
             /\ h \in DOMAIN DATA_PIPES' => DATA_PIPES'[h] = DATA_PIPES[h]]_vars

\* A step in which next() is called on stream d.
PollStep(d) ==
    /\ stream[d] = "open"
    /\ lastOp'.name = "next" /\ lastOp'.who = d
    /\ lastOp' # lastOp \/ data_chan' # data_chan

\* C5: a poll of a stream that has not been dropped returns the oldest queued
\* packet when the channel holds one and None when it is empty, and never faults.
C5_PollOldestOrNothing ==
    [][\A d \in Streams :
          PollStep(d) =>
             /\ fault' = "none"
             /\ IF data_chan[d] # <<>>
                THEN /\ lastOp'.res = "Some" /\ lastOp'.out = {Head(data_chan[d])}
                     /\ data_chan'[d] = Tail(data_chan[d])
                ELSE lastOp'.res = "None" /\ data_chan' = data_chan]_vars

\* C6: after a stream for handle h has been dropped, and until a new one is started
\* for h, h has no registry entry, and a data_cb call for h, whatever its packet,
\* delivers to no channel and raises no fault.
C6_CallbackAfterDropIsNoOp ==
    /\ [](\A h \in Handles : dropped_since[h].dropped => h \notin DOMAIN DATA_PIPES)
    /\ [][\A h \in Handles :
             (dropped_since[h].dropped /\ dropped_since'[h].calls = dropped_since[h].calls + 1)
                 => (data_chan' = data_chan /\ fault' = "none")]_vars

\* Two callbacks have run for a handle since its stream was dropped, while a stream
\* of another handle is open and registered.
C6_Witness ==
    \E h \in Handles :
       /\ dropped_since[h].dropped /\ dropped_since[h].calls >= 2
       /\ \E d \in Streams : stream[d] = "open" /\ shandle[d] # h /\ SenderAlive(d)

IsPrefix(a, b) == Len(a) <= Len(b) /\ SubSeq(b, 1, Len(a)) = a

\* What the data_cb calls recorded for stream d decode to, in invocation order;
\* a call whose packet the decoder rejects ends the run.
Deliverable(d) ==
    LET Rejected(c) == DecodePanic(c[1], c[2], c[3]) # "none"
        ok == {i \in 1..Len(invoked[d]) : ~Rejected(invoked[d][i])}
    IN  [i \in 1..Cardinality(ok) |->
            DataPacketFrom(invoked[d][i][1], invoked[d][i][2], invoked[d][i][3])]

\* C7: for a stream that has not been dropped, the packets returned by its polls,
\* followed by those still queued, are exactly the packets of the data_cb calls made
\* for its handle while it was registered, in invocation order: the polled sequence
\* is a prefix of them, nothing is lost, duplicated or reordered.
C7_PolledIsPrefixOfInvoked ==
    \A d \in Streams :
       stream[d] \in {"starting", "open", "stopping"} =>
          /\ polled[d] \o data_chan[d] = Deliverable(d)
          /\ \A i \in 1..Len(invoked[d]) :
                DecodePanic(invoked[d][i][1], invoked[d][i][2], invoked[d][i][3]) # "none"
                    => (i = Len(invoked[d]) /\ fault # "none")
          /\ IsPrefix(polled[d], Deliverable(d))

\* Two packets have been polled from one stream while a stream of another handle
\* has received one.
C7_Witness ==
    \E d, e \in Streams :
       /\ d # e /\ stream[d] = "open" /\ stream[e] = "open" /\ shandle[d] # shandle[e]
       /\ Len(polled[d]) >= 2
       /\ Len(invoked[e]) >= 1

(***************************************************************************)
(* Claims about the Device State Table.                                    *)
(***************************************************************************)
\* Bit number `state` of the mask, read arithmetically.
BitSet(state_mask, state) == (state_mask \div (2 ^ state)) % 2 = 1

\* A step in which waiter w executes one iteration of the polling loop.
WaitPollStep(w) == wpc[w] = "locked" /\ wpolls'[w] = wpolls[w] + 1

\* C8: wait_for_state(mask) returns exactly at a poll that observes a stored state
\* whose bit (1 << state) is set in mask: a poll that observes one returns (the first
\* poll included), a poll that observes none does not, and there is no other return.
C8_ReturnsOnlyOnMatch ==
    [][\A w \in Waiters :
          /\ WaitPollStep(w) =>
                (wpc'[w] = "returned"
                    <=> BitSet(wmask[w], StoredState(DEVICE_STATES, whandle[w])))
          /\ (wpc[w] # "returned" /\ wpc'[w] = "returned") => WaitPollStep(w)]_vars

\* A call has returned after a poll that observed no match and one that did.
C8_Witness ==
    \E w \in Waiters : wpc[w] = "returned" /\ wpolls[w] >= 2

\* C9: wait_for_state(Any) returns whatever state is stored: a call with the mask
\* Any has returned as soon as it has polled once.
C9_AnyMatchesEveryState ==
    \A w \in Waiters :
       (wmask[w] = MaskAny /\ wpolls[w] >= 1) => wpc[w] = "returned"

(***************************************************************************)
(* Claims about the callback bridge and the teardown order.                *)
(***************************************************************************)
\* The faults only broadcast_cb raises.
BroadcastCbFaults == {"broadcast_cb: Broadcast pipe not setup but broadcast_cb called",
                      "broadcast_cb: send on a disconnected channel"}

\* C11: a native callback that finds no channel registered is a silent no-op: while
\* the discovery slot is empty no step ends in a fault of broadcast_cb (the callback
\* delivers nothing and returns), as data_cb does for an unregistered handle.
C11_NoChannelIsNoOp ==
    [][(BROADCAST_PIPE = None /\ fault = "none") => fault' \notin BroadcastCbFaults]_vars

\* Sessions whose drop has signalled the drain thread while that thread still runs.
TearingDown == {s \in Sessions : sdk[s] = "joining" /\ drain[s] \in {"recv", "kill"}}

\* C12: drop signals the drain thread, joins it and only then clears the discovery
\* slot. So while the drain thread of a session being torn down still runs the slot
\* is occupied and no Sdk::new returns Ok; the slot is cleared only by a drop whose
\* thread has exited, and it is empty when that drop returns.
C12_TeardownOrder ==
    /\ [](TearingDown # {} => BROADCAST_PIPE # None)
    /\ [][/\ TearingDown # {} => \A s \in Sessions : (sdk'[s] = "live" => sdk[s] = "live")
          /\ \A s \in Sessions :
                (sdk[s] = "clearing" /\ sdk'[s] = "dropped")
                    => (drain[s] = "exited" /\ BROADCAST_PIPE' = None)
          /\ (BROADCAST_PIPE # None /\ BROADCAST_PIPE' = None)
                => \E s \in Sessions : sdk[s] = "clearing" /\ sdk'[s] = "dropped"]_vars

(***************************************************************************)
(* Claims about the construction and teardown order of Data Streams.       *)
(***************************************************************************)
\* C13: DataStream::new registers the channel before it issues the native commands,
\* so the handle has its registry entry when the commands are issued, and every
\* data_cb call for the handle that follows from this start (made while the stream is
\* open) finds the entry: no packet of the new stream is dropped.
C13_RegisteredBeforeCommands ==
    /\ [][\A d \in Streams :
             (stream[d] = "starting" /\ stream'[d] = "open")
                 => shandle[d] \in DOMAIN DATA_PIPES]_vars
    /\ [](\A d \in Streams : stream[d] = "open" => shandle[d] \in DOMAIN DATA_PIPES)

\* A step in which data_cb is invoked for handle h.
DataCbStep(h) == ncalls' = ncalls + 1 /\ last_cb'.handle = h

\* C14: drop issues the stop-sampling command first and removes the registry entry
\* afterwards. A data_cb call with a decodable packet that arrives between the two
\* steps is delivered to the channel of the stream being dropped; a call that arrives
\* when the handle has no entry delivers nothing; neither raises a fault; and an
\* entry is removed only by a drop that has issued its stop command.
C14_StopThenDeregister ==
    [][/\ \A d \in Streams :
             (stream[d] = "stopping" /\ DataCbStep(shandle[d])
                    /\ DecodePanic(last_cb'.data, last_cb'.data_size, last_cb'.beyond) = "none")
                 => /\ data_chan'[d] = Append(data_chan[d],
                                              DataPacketFrom(last_cb'.data, last_cb'.data_size,
                                                             last_cb'.beyond))
                    /\ fault' = "none"
       /\ \A h \in Handles :
             (DataCbStep(h) /\ h \notin DOMAIN DATA_PIPES)
                 => (data_chan' = data_chan /\ fault' = "none")
       /\ \A h \in DOMAIN DATA_PIPES :
             h \notin DOMAIN DATA_PIPES'
                 => \E d \in Streams : stream[d] = "stopping" /\ stream'[d] = "dropped"
                                          /\ shandle[d] = h]_vars

(***************************************************************************)
(* Claims about the packet decoder.                                        *)
(***************************************************************************)
\* A step in which data_cb finds stream d registered for its handle and decodes.
DecodeStep(d) ==
    /\ ncalls' = ncalls + 1
    /\ last_cb'.handle \in DOMAIN DATA_PIPES
    /\ DATA_PIPES[last_cb'.handle] = d

\* The header fields a decodable packet has.
HeaderAccepted(p) ==
    /\ p.version = 5
    /\ p.err_code \in {0, 512}
    /\ p.timestamp_type = 0
    /\ p.data_type \in {0, 1}

\* The payload length the declared number of points calls for.
ExpectedLength(p, data_size) ==
    IF p.data_type = 0 THEN 13 * data_size ELSE IF p.data_type = 1 THEN 9 * data_size ELSE 0

Last(s) == s[Len(s)]

\* C15: decoding succeeds if and only if version = 5, the error code with bit 9
\* cleared is 0, timestamp_type = 0 and data_type is 0 or 1 (for a packet that holds
\* the payload it declares): then one Telemetry Packet is delivered; every other
\* header ends in a fault and delivers nothing.
C15_DecodeIffHeaderValid ==
    [][\A d \in Streams :
          (DecodeStep(d)
                /\ Len(last_cb'.data.data) >= ExpectedLength(last_cb'.data, last_cb'.data_size))
              => IF HeaderAccepted(last_cb'.data)
                 THEN fault' = "none" /\ Len(data_chan'[d]) = Len(data_chan[d]) + 1
                 ELSE fault' # "none" /\ data_chan' = data_chan]_vars

\* A packet whose error code is exactly bit 9 has been decoded and delivered.
C15_Witness ==
    /\ fault = "none" /\ ncalls >= 1
    /\ last_cb.data.err_code = 512
    /\ \E d \in Streams :
          /\ last_cb.handle \in DOMAIN DATA_PIPES /\ DATA_PIPES[last_cb.handle] = d
          /\ data_chan[d] # <<>>

\* C16: the decoded timestamp is the big-endian value of the 8-byte field: its
\* base-256 digit of weight 256^(8-i) is byte i, no digit is lost to overflow;
\* [0,0,0,0,0,0,0,1] decodes to 1 and [1,0,0,0,0,0,0,0] to 2^56.
C16_TimestampBigEndian ==
    [][\A d \in Streams :
          (DecodeStep(d) /\ fault' = "none")
              => LET ts == Last(data_chan'[d]).timestamp
                     b == last_cb'.data.timestamp
                 IN  /\ Len(ts) = 8
                     /\ \A i \in 1..8 : ts[i] = b[i]
                     /\ b = <<0, 0, 0, 0, 0, 0, 0, 1>>
                            => (ts[8] = 1 /\ \A i \in 1..7 : ts[i] = 0)
                     /\ b = <<1, 0, 0, 0, 0, 0, 0, 0>>
                            => (ts[1] = 1 /\ \A i \in 2..8 : ts[i] = 0)]_vars

\* The timestamp field [1,0,0,0,0,0,0,0] has been decoded and delivered.
C16_Witness ==
    /\ fault = "none" /\ ncalls >= 1
    /\ last_cb.data.timestamp = <<1, 0, 0, 0, 0, 0, 0, 0>>
    /\ \E d \in Streams :
          /\ last_cb.handle \in DOMAIN DATA_PIPES /\ DATA_PIPES[last_cb.handle] = d
          /\ data_chan[d] # <<>> /\ Last(data_chan[d]).timestamp[1] = 1

\* The i-th record of a payload.
RecordOf(data, size, i) == SubSeq(data, size * (i - 1) + 1, size * i)

\* C17: for a valid packet declaring n points the decoded packet holds exactly n
\* points, all of the shape its data type selects, the i-th one built from the i-th
\* record of the payload alone, its reflectivity being that record's last byte.
C17_PointsFollowRecords ==
    [][\A d \in Streams :
          (DecodeStep(d) /\ fault' = "none"
                /\ Len(last_cb'.data.data) = ExpectedLength(last_cb'.data, last_cb'.data_size))
              => LET points == Last(data_chan'[d]).points
                     data == last_cb'.data.data
                     n == last_cb'.data_size
                     cartesian == last_cb'.data.data_type = 0
                     size == IF cartesian THEN 13 ELSE 9
                 IN  /\ Len(points) = n
                     /\ \A i \in 1..n :
                           /\ points[i].shape = IF cartesian THEN "Cartesian" ELSE "Spherical"
                           /\ points[i].reflectivity = RecordOf(data, size, i)[size]
                           /\ points[i] = IF cartesian
                                          THEN add_cartesian(RecordOf(data, size, i), 1)[1]
                                          ELSE add_spherical(RecordOf(data, size, i), 1)[1]]_vars

\* A packet of two Spherical points has been decoded and delivered.
C17_Witness ==
    /\ fault = "none" /\ ncalls >= 1
    /\ last_cb.data.data_type = 1 /\ last_cb.data_size = 2 /\ Len(last_cb.data.data) = 18
    /\ \E d \in Streams :
          /\ last_cb.handle \in DOMAIN DATA_PIPES /\ DATA_PIPES[last_cb.handle] = d
          /\ data_chan[d] # <<>> /\ Len(Last(data_chan[d]).points) = 2

\* The signed 32-bit little-endian integer of four bytes, in two's complement.
LittleEndianI32(b) ==
    IF b[4] < 128
    THEN b[1] + 256 * b[2] + 65536 * b[3] + 16777216 * b[4]
    ELSE -1 - ((255 - b[1]) + 256 * (255 - b[2]) + 65536 * (255 - b[3])
                  + 16777216 * (255 - b[4]))

\* C18: for a valid Cartesian payload of 13 * n bytes, x, y and z of each decoded
\* point are the three signed 32-bit little-endian integers of its record, as f32,
\* divided by 1000.0, and the reflectivity is the record's 13th byte.
C18_CartesianMillimetres ==
    [][\A d \in Streams :
          (DecodeStep(d) /\ fault' = "none" /\ last_cb'.data.data_type = 0
                /\ Len(last_cb'.data.data) = 13 * last_cb'.data_size)
              => \A i \in 1..last_cb'.data_size :
                    LET rec == RecordOf(last_cb'.data.data, 13, i)
                        pt == Last(data_chan'[d]).points[i]
                    IN  /\ pt.x = <<I32AsF32(LittleEndianI32(SubSeq(rec, 1, 4))), 1000>>
                        /\ pt.y = <<I32AsF32(LittleEndianI32(SubSeq(rec, 5, 8))), 1000>>
                        /\ pt.z = <<I32AsF32(LittleEndianI32(SubSeq(rec, 9, 12))), 1000>>
                        /\ pt.reflectivity = rec[13]]_vars

\* A packet of two Cartesian points has been delivered, one with x = 1.0 and
\* y = -1.0, the other with x = -2^31 / 1000.0.
C18_Witness ==
    /\ fault = "none" /\ ncalls >= 1
    /\ \E d \in Streams :
          /\ data_chan[d] # <<>>
          /\ \E i, j \in 1..Len(Last(data_chan[d]).points) :
                /\ Last(data_chan[d]).points[i].shape = "Cartesian"
                /\ Last(data_chan[d]).points[i].x = <<<<1000, 0>>, 1000>>
                /\ Last(data_chan[d]).points[i].y = <<<<-1000, 0>>, 1000>>
                /\ Last(data_chan[d]).points[j].x = <<<<-16777216, 7>>, 1000>>

\* C19: a payload whose length is not exactly the declared number of points times
\* the record size (13 Cartesian, 9 Spherical) is rejected: decoding ends in a fault
\* and no Telemetry Packet is delivered.
C19_LengthMismatchRejected ==
    [][\A d \in Streams :
          (DecodeStep(d) /\ HeaderAccepted(last_cb'.data)
                /\ Len(last_cb'.data.data) # ExpectedLength(last_cb'.data, last_cb'.data_size))
              => (fault' # "none" /\ data_chan' = data_chan)]_vars

(***************************************************************************)
(* Claims about the content of the Device State Table.                     *)
(***************************************************************************)
\* C20: once a state-change notification for handle h has been processed, the
\* stored state of h is the state of the most recently processed notification for
\* h, however the callback interleaves with connect / Device::new for h.
C20_TableHoldsLastNotified ==
    \A h \in DOMAIN notified :
       h \in DOMAIN DEVICE_STATES /\ DEVICE_STATES[h] = notified[h]

\* The entry of handle h is created or gets another value in this step.
StoredChanged(h) ==
    /\ h \in DOMAIN DEVICE_STATES'
    /\ h \notin DOMAIN DEVICE_STATES \/ DEVICE_STATES'[h] # DEVICE_STATES[h]

\* C21: the stored state of a handle changes only in a step of a state-change
\* notification for that handle, which stores the notified state, or of
\* Device::new for that handle (from connect), which stores Unknown; every other
\* operation (set_mode, set_coordinate_system, start_sampling, polling or dropping
\* a stream, data and broadcast callbacks, wait_for_state, session teardown)
\* leaves every entry as it is, and no step removes an entry.
C21_TableWrittenOnlyByNotifyOrNew ==
    [][/\ DOMAIN DEVICE_STATES \subseteq DOMAIN DEVICE_STATES'
       /\ \A h \in Handles :
             StoredChanged(h) =>
                /\ table_op' # table_op
                /\ table_op'.handle = h
                /\ DEVICE_STATES'[h] = table_op'.state
                /\ \/ table_op'.kind = "notify"
                   \/ table_op'.kind = "new" /\ table_op'.state = LidarStateUnknown]_vars

\* A notified state is stored while a command was issued, a data callback ran, a
\* stream was dropped, a wait returned and the session was torn down.
C21_Witness ==
    /\ \E h \in DOMAIN DEVICE_STATES : DEVICE_STATES[h] = LidarStateNormal
    /\ lastOp.name \in {"set_mode", "set_coordinate_system"}
    /\ \E d \in Streams : stream[d] = "dropped"
    /\ ncalls > 0
    /\ \E w \in Waiters : wpc[w] = "returned"
    /\ \E s \in Sessions : sdk[s] = "dropped"

\* C22: a state-change notification whose state value is none of the six recognised
\* ones ends in a fatal fault and leaves the Device State Table as it was: the entry
\* of the notified handle keeps its value and is not set to Unknown or anything else.
C22_UnrecognisedStateFaults ==
    [][(table_op' # table_op /\ table_op'.kind = "notify" /\ table_op'.state \notin LidarStates)
          => (fault' # "none" /\ DEVICE_STATES' = DEVICE_STATES)]_vars

\* The handle had a recognised, non-default state stored when the notification with
\* the unrecognised value arrived.
C22_Witness ==
    /\ fault # "none"
    /\ table_op.kind = "notify" /\ table_op.state \notin LidarStates
    /\ table_op.handle \in DOMAIN DEVICE_STATES
    /\ DEVICE_STATES[table_op.handle] = LidarStateNormal

(***************************************************************************)
(* Claims about progress of the session: teardown and discovery.           *)
(***************************************************************************)
\* C23: once drop has sent the kill signal the drain thread observes it and exits,
\* whatever notifications are queued or arrive; drop gets past the join only after
\* the thread has exited; and the known-devices set of a session whose drop has
\* returned is not modified any more.
C23_TeardownTerminates ==
    /\ \A s \in Sessions : (sdk[s] = "joining") ~> (drain[s] = "exited")
    /\ [][\A s \in Sessions :
             (sdk[s] = "joining" /\ sdk'[s] # "joining") => drain[s] = "exited"]_vars
    /\ [][\A s \in Sessions :
             sdk[s] = "dropped" => known_devices'[s] = known_devices[s]]_vars

\* C24: every notification that broadcast_cb has put on the channel of a session
\* is eventually a key of that session's known-devices set, unless the session is
\* torn down first; and the set of a session, which list_known_devices returns,
\* starts empty with an empty channel and grows only by the code at the head of
\* the session's own channel, so it never holds a code that only an earlier
\* session saw.
C24_ForwardedEventuallyKnown ==
    /\ \A s \in Sessions : \A code \in BroadcastCodes :
          (\E i \in 1..Len(broadcast_chan[s]) : broadcast_chan[s][i] = code)
             ~> (CodeBytes(code) \in DOMAIN known_devices[s] \/ sdk[s] # "live")
    /\ [](\A s \in Sessions :
             sdk[s] = "unused" => (known_devices[s] = EmptyMap /\ broadcast_chan[s] = <<>>))
    /\ [][\A s \in Sessions :
             /\ known_devices'[s] # known_devices[s] /\ sdk'[s] # "dropped"
                   => /\ broadcast_chan[s] # <<>>
                      /\ DOMAIN known_devices'[s] =
                            DOMAIN known_devices[s] \cup {CodeBytes(Head(broadcast_chan[s]))}
             /\ (lastOp' # lastOp /\ lastOp'.name = "list" /\ lastOp'.who = s)
                   => lastOp'.out = DOMAIN known_devices[s]]_vars

(***************************************************************************)
(* Claims about locking.                                                   *)
(***************************************************************************)
HeldBy(t) == {l \in Locks : held[l] = t}

\* The thread's next step does not have to wait.
CanStep(t) ==
    CASE AtStep(t).do = "lock" -> held[AtStep(t).on] = Unlocked
      [] AtStep(t).do = "join" -> ldrain = "ended"
      [] OTHER -> TRUE

\* C25: every access to the four shared tables takes one lock and releases it: no
\* thread holds two of the locks at once, none holds a lock while it is in a native
\* call or waits in join or after its operation has returned, and whenever a
\* thread has to wait some other thread inside an operation can take a step, so no
\* interleaving of callers, the drain thread and native callbacks is a deadlock.
C25_OneLockNoDeadlock ==
    /\ \A t \in LockThreads : Cardinality(HeldBy(t)) <= 1
    /\ \A t \in LockThreads :
          (MidOp(t) /\ AtStep(t).do \in {"join", "native"}) => HeldBy(t) = {}
    /\ \A t \in LockThreads : ~MidOp(t) => HeldBy(t) = {}
    /\ \A t \in LockThreads :
          (MidOp(t) /\ ~CanStep(t)) => \E u \in LockThreads : MidOp(u) /\ CanStep(u)

\* A callback waits for a lock that a caller holds while another caller waits in
\* join for the drain thread, which is inside its critical section.
C25_Witness ==
    /\ MidOp(NativeThread) /\ AtStep(NativeThread).do = "lock"
    /\ held[AtStep(NativeThread).on] \in Threads
    /\ \E t \in Threads : MidOp(t) /\ AtStep(t).do = "join" /\ ldrain = "running"
    /\ HeldBy(DrainThreadId) # {}

\* The stored state of the waiter's handle has its bit in the waiter's mask.
Matches(w) == MaskAllows(wmask[w], StoredState(DEVICE_STATES, whandle[w]))

InLoop(w) == wpc[w] \in {"polling", "locked"} /\ wpolls[w] < MaxPolls

\* C26: a waiter holds the table lock only inside one poll, never between polls,
\* so whenever no waiter is inside a poll the lock is free for a notification; and
\* a call that is in its loop while the stored state matches the mask from then on
\* (and no fault ends the program) eventually returns.
C26_WaiterYieldsAndReturns ==
    /\ [](\A w \in Waiters : wpc[w] # "locked" => state_lock # w)
    /\ []((\A w \in Waiters : wpc[w] # "locked") => state_lock = Unlocked)
    /\ \A w \in Waiters :
          (InLoop(w) /\ [](Matches(w) /\ Running)) ~> (wpc[w] = "returned")

\* A waiter polled without a match, a notification then stored a matching state
\* between two polls, and the call returned.
C26_Witness ==
    \E w \in Waiters :
       /\ wpc[w] = "returned"
       /\ wpolls[w] > 1
       /\ table_op.kind = "notify" /\ table_op.handle = whandle[w]
       /\ Matches(w)

(***************************************************************************)
(* Claims about the registry and the isolation of streams.                 *)
(***************************************************************************)
\* C27: every Data Stream that has not been dropped is registered: the registry
\* has an entry under the stream's handle and the entry is the sender of that
\* stream's own channel, so the drop of one stream never takes away the entry of
\* another stream that is still open.
C27_OpenStreamRegistered ==
    \A d \in Streams :
       stream[d] \in {"starting", "open", "stopping"} =>
          (shandle[d] \in DOMAIN DATA_PIPES /\ DATA_PIPES[shandle[d]] = d)

\* C28: every sender stored in the registry belongs to a stream whose receiver is
\* alive (the stream is not dropped), and no data_cb has faulted on a send to a
\* disconnected channel, however data callbacks interleave with the creation and
\* the drop of streams.
C28_StoredSenderHasReceiver ==
    /\ \A h \in DOMAIN DATA_PIPES : stream[DATA_PIPES[h]] \in {"starting", "open", "stopping"}
    /\ fault # "data_cb: send on a disconnected channel"

\* A stream was dropped, a later stream of the same handle is registered and a
\* data callback has sent a packet to it.
C28_Witness ==
    \E d, e \in Streams :
       /\ stream[d] = "dropped" /\ stream[e] = "open"
       /\ shandle[d] = shandle[e]
       /\ shandle[e] \in DOMAIN DATA_PIPES /\ DATA_PIPES[shandle[e]] = e
       /\ data_chan[e] # <<>>

\* C29: streams are isolated. A stream starts with an empty channel and nothing
\* polled; its channel grows only in a data_cb call for the stream's own handle,
\* made while the stream exists, by the packet decoded from that call; a poll
\* moves the oldest queued packet of the stream's own channel to the caller. So a
\* polled packet never comes from a callback for another handle or from one that
\* ran before the stream was registered.
C29_StreamsIsolated ==
    [][\A d \in Streams :
          /\ (stream[d] = "unused" /\ stream'[d] # "unused")
                => (data_chan'[d] = <<>> /\ polled'[d] = <<>>)
          /\ Len(data_chan'[d]) > Len(data_chan[d])
                => /\ ncalls' = ncalls + 1
                   /\ last_cb'.handle = shandle[d]
                   /\ stream[d] \in {"starting", "open", "stopping"}
                   /\ data_chan'[d] = Append(data_chan[d],
                         DataPacketFrom(last_cb'.data, last_cb'.data_size, last_cb'.beyond))
          /\ (polled'[d] # polled[d] /\ stream'[d] # "dropped")
                => /\ data_chan[d] # <<>>
                   /\ polled'[d] = Append(polled[d], Head(data_chan[d]))
                   /\ data_chan'[d] = Tail(data_chan[d])
          /\ (Len(data_chan'[d]) < Len(data_chan[d]) /\ stream'[d] # "dropped")
                => polled'[d] # polled[d]]_vars

\* A stream of a handle was dropped, a later stream of the same handle has polled
\* a packet, and the latest data callback was for another handle.
C29_Witness ==
    \E d, e \in Streams :
       /\ stream[d] = "dropped" /\ stream[e] = "open"
       /\ shandle[d] = shandle[e]
       /\ polled[e] # <<>>
       /\ last_cb.handle # shandle[e] /\ ncalls > 1

====
